---- MODULE Spec2Model ----
(***************************************************************************)
(* The scoped view pipeline (ScopedViewBuilder / ScopedView), the Symbols  *)
(* substitution stage, the language scopers, apply and the parallel walk   *)
(* of the driver, as state machines.                                       *)
(*                                                                         *)
(* Strings are sequences of one-character strings; byte offsets are        *)
(* 0-based as in the source, so the byte at offset i of s is s[i + 1].     *)
(***************************************************************************)
EXTENDS Naturals, Integers, Sequences, FiniteSets, TLC

VARIABLES viewee, scopes, phase, nexp, panicked, handed, squeezed,
          nmaps, lastop, calls, mapres,
          sympc, deque, out, symin, iters, pushed,
          langpc, lquery, language, lranges,
          apc, args, source, view, built, destination, lines, result, si, ai,
          walkpc, options, workers, todo, quit, err, stored, n_files,
          stdout_lock, disk, returned, stdout, err_mutex, n_files_mutex,
          mpc, cli, log_env, is_readable_stdin, level_filter, search_mode,
          inp

vars == <<viewee, scopes, phase, nexp, panicked, handed, squeezed,
          nmaps, lastop, calls, mapres,
          sympc, deque, out, symin, iters, pushed,
          langpc, lquery, language, lranges,
          apc, args, source, view, built, destination, lines, result, si, ai,
          walkpc, options, workers, todo, quit, err, stored, n_files,
          stdout_lock, disk, returned, stdout, err_mutex, n_files_mutex,
          mpc, cli, log_env, is_readable_stdin, level_filter, search_mode,
          inp>>

viewvars == <<viewee, scopes, phase, nexp, panicked, handed, squeezed,
              nmaps, lastop, calls, mapres>>

symvars == <<sympc, deque, out, symin, iters, pushed>>

langvars == <<langpc, lquery, language, lranges>>

applyvars == <<apc, args, source, view, built, destination, lines, result,
               si, ai>>

walkvars == <<walkpc, options, workers, todo, quit, err, stored, n_files,
              stdout_lock, disk, returned, stdout, err_mutex, n_files_mutex>>

mainvars == <<mpc, cli, log_env, is_readable_stdin, level_filter, search_mode,
              inp>>

\* What the actions of one part leave alone.
offview == <<symvars, langvars, applyvars, walkvars, mainvars>>
offsym == <<viewvars, langvars, applyvars, walkvars, mainvars>>
offlang == <<viewvars, symvars, applyvars, walkvars, mainvars>>
offapply == <<viewvars, symvars, langvars, walkvars, mainvars>>
offwalk == <<viewvars, symvars, langvars, applyvars, mainvars>>
offmain == <<viewvars, symvars, langvars, applyvars, walkvars>>

(***************************************************************************)
(* Bounds                                                                  *)
(***************************************************************************)
MaxLen == 3
MaxExplodes == 2
MaxMaps == 1
MaxSymLen == 5
MaxTail == 3
MaxLangLen == 2
MaxCaptured == 1
MaxApplyLen == 2
MaxApplyScopers == 1
MaxApplyActions == 2
MaxThreads == 2
MaxFiles == 2

CR == "\r"
LF == "\n"

Chars == {"a", "b", CR, LF}

RECURSIVE StringsUpTo(_, _)
StringsUpTo(alphabet, n) ==
    IF n = 0 THEN {<<>>}
    ELSE LET shorter == StringsUpTo(alphabet, n - 1)
         IN  shorter \cup {Append(s, c) : s \in shorter, c \in alphabet}

Inputs == StringsUpTo(Chars, MaxLen)

RECURSIVE Flatten(_)
Flatten(ss) == IF ss = <<>> THEN <<>> ELSE Head(ss) \o Flatten(Tail(ss))

(***************************************************************************)
(* Scopes                                                                  *)
(***************************************************************************)
NoCtx == [has |-> FALSE, caps |-> <<>>]

SomeCtx(caps) == [has |-> TRUE, caps |-> caps]

GlobalRange(s, e) == [start |-> s, end |-> e]

In(content, range, ctx) ==
    [tag |-> "In", content |-> content, range |-> range, ctx |-> ctx]

Out(content, range) ==
    [tag |-> "Out", content |-> content, range |-> range, ctx |-> NoCtx]

is_empty(scope) == scope.content = <<>>

Render(ss) == Flatten([i \in 1..Len(ss) |-> ss[i].content])

(***************************************************************************)
(* Scopers.  scope_raw returns the raw ranges (local, half-open, sorted)   *)
(* with their optional context.                                            *)
(***************************************************************************)
Literal(c) == [kind |-> "Literal", pat |-> c]
Regex(p) == [kind |-> "Regex", pat |-> p]
DosFix == [kind |-> "DosFix", pat |-> CR]

Scopers == {Literal("a"), Regex("a"), Regex(LF), Regex("."),
            Regex("(a)|b"), Regex(""), Regex("(?s).*")}

Raw(s, e, ctx) == [start |-> s, end |-> e, ctx |-> ctx]

\* The offsets of the characters of input that are in hits, in order.
EachChar(input, hits) ==
    LET RECURSIVE go(_)
        go(i) == IF i >= Len(input) THEN <<>>
                 ELSE (IF input[i + 1] \in hits THEN <<i>> ELSE <<>>) \o go(i + 1)
    IN  go(0)

\* One range per maximal run of characters of input that are in hits.
Runs(input, hits) ==
    LET RECURSIVE go(_, _)
        go(i, from) ==
            IF i >= Len(input)
            THEN IF from < i THEN <<Raw(from, i, NoCtx)>> ELSE <<>>
            ELSE IF input[i + 1] \in hits
                 THEN go(i + 1, from)
                 ELSE (IF from < i THEN <<Raw(from, i, NoCtx)>> ELSE <<>>)
                      \o go(i + 1, i + 1)
    IN  go(0, 0)

\* The characters a one-character pattern matches.
Matched(scoper) ==
    CASE scoper.kind = "Regex" /\ scoper.pat = "." -> Chars \ {LF}
      [] scoper.kind = "Regex" /\ scoper.pat = "(a)|b" -> {"a", "b"}
      [] OTHER -> {scoper.pat}

\* The context of a match: none for a literal; for a regex the full match
\* and the capture groups that took part in it.
Captures(scoper, m) ==
    CASE scoper.kind = "Literal" -> NoCtx
      [] scoper.kind = "Regex" /\ scoper.pat = "(a)|b" /\ m = <<"a">> -> SomeCtx(<<m, m>>)
      [] OTHER -> SomeCtx(<<m>>)

scope_raw(scoper, input) ==
    CASE scoper.kind = "DosFix" ->
            Runs(input, Chars \ {CR})
      [] scoper.kind = "Regex" /\ scoper.pat = "" ->
            [i \in 1..(Len(input) + 1) |-> Raw(i - 1, i - 1, Captures(scoper, <<>>))]
      [] scoper.kind = "Regex" /\ scoper.pat = "(?s).*" ->
            <<Raw(0, Len(input), Captures(scoper, input))>>
      [] OTHER ->
            LET at == EachChar(input, Matched(scoper))
            IN  [k \in 1..Len(at) |->
                    Raw(at[k], at[k] + 1, Captures(scoper, <<input[at[k] + 1]>>))]

\* Every byte of input is classified In (covered by a raw range) or Out;
\* contiguous runs become scopes, offsets translated by the scope's start.
from_raw_ranges(input, ranges, base) ==
    LET rs == SelectSeq(ranges, LAMBDA r : r.start < r.end)
        gap(from, to) ==
            IF from < to
            THEN <<Out(SubSeq(input, from + 1, to), GlobalRange(base + from, base + to))>>
            ELSE <<>>
        RECURSIVE go(_, _)
        go(k, last) ==
            IF k > Len(rs) THEN gap(last, Len(input))
            ELSE gap(last, rs[k].start)
                 \o <<In(SubSeq(input, rs[k].start + 1, rs[k].end),
                         GlobalRange(base + rs[k].start, base + rs[k].end),
                         rs[k].ctx)>>
                 \o go(k + 1, rs[k].end)
    IN  go(1, 0)

scope(scoper, input, range) ==
    from_raw_ranges(input, scope_raw(scoper, input), range.start)

(***************************************************************************)
(* ScopedViewBuilder                                                       *)
(***************************************************************************)
new(input) == <<In(input, GlobalRange(0, Len(input)), NoCtx)>>

explode_all(ss, scoper) ==
    LET RECURSIVE go(_)
        go(k) ==
            IF k > Len(ss) THEN <<>>
            ELSE (IF is_empty(ss[k]) THEN <<>>
                  ELSE SelectSeq(scope(scoper, ss[k].content, ss[k].range),
                                 LAMBDA s : ~is_empty(s)))
                 \o go(k + 1)
    IN  go(1)

explode_dropping_out(ss, scoper) ==
    LET RECURSIVE go(_)
        go(k) ==
            IF k > Len(ss) THEN <<>>
            ELSE (IF is_empty(ss[k]) THEN <<>>
                  ELSE IF ss[k].tag = "In"
                       THEN SelectSeq(scope(scoper, ss[k].content, ss[k].range),
                                      LAMBDA s : ~is_empty(s))
                       ELSE <<>>)
                 \o go(k + 1)
    IN  go(1)

explode_coalescing(ss, scoper) ==
    LET RECURSIVE go(_)
        go(k) ==
            IF k > Len(ss) THEN <<>>
            ELSE (IF is_empty(ss[k]) THEN <<>>
                  ELSE IF ss[k].tag = "In"
                       THEN SelectSeq(scope(scoper, ss[k].content, ss[k].range),
                                      LAMBDA s : ~is_empty(s))
                       ELSE IF ss[k].content = <<>> THEN <<>>
                       ELSE <<ss[k]>>)
                 \o go(k + 1)
        RECURSIVE merge(_)
        merge(xs) ==
            IF Len(xs) < 2 THEN xs
            ELSE IF xs[1].tag = "Out" /\ xs[2].tag = "Out"
                 THEN merge(<<Out(xs[1].content \o xs[2].content,
                                  GlobalRange(xs[1].range.start, xs[2].range.end))>>
                            \o SubSeq(xs, 3, Len(xs)))
                 ELSE <<xs[1]>> \o merge(Tail(xs))
    IN  merge(go(1))

explode_keeping_empty(ss, scoper) ==
    LET RECURSIVE go(_)
        go(k) ==
            IF k > Len(ss) THEN <<>>
            ELSE (IF is_empty(ss[k]) THEN <<ss[k]>>
                  ELSE IF ss[k].tag = "In"
                       THEN SelectSeq(scope(scoper, ss[k].content, ss[k].range),
                                      LAMBDA s : ~is_empty(s))
                       ELSE IF ss[k].content = <<>> THEN <<>>
                       ELSE <<ss[k]>>)
                 \o go(k + 1)
    IN  go(1)

explode_carrying_ctx(ss, scoper) ==
    LET inherit(s, parent) ==
            IF s.tag = "In" /\ ~s.ctx.has THEN [s EXCEPT !.ctx = parent.ctx] ELSE s
        RECURSIVE go(_)
        go(k) ==
            IF k > Len(ss) THEN <<>>
            ELSE (IF is_empty(ss[k]) THEN <<>>
                  ELSE IF ss[k].tag = "In"
                       THEN LET new_scopes ==
                                    SelectSeq(scope(scoper, ss[k].content, ss[k].range),
                                              LAMBDA s : ~is_empty(s))
                            IN  [j \in 1..Len(new_scopes) |->
                                    inherit(new_scopes[j], ss[k])]
                       ELSE IF ss[k].content = <<>> THEN <<>>
                       ELSE <<ss[k]>>)
                 \o go(k + 1)
    IN  go(1)

explode(ss, scoper) ==
    LET RECURSIVE go(_)
        go(k) ==
            IF k > Len(ss) THEN <<>>
            ELSE (IF is_empty(ss[k]) THEN <<>>
                  ELSE IF ss[k].tag = "In"
                       THEN SelectSeq(scope(scoper, ss[k].content, ss[k].range),
                                      LAMBDA s : ~is_empty(s))
                       ELSE IF ss[k].content = <<>> THEN <<>>
                       ELSE <<ss[k]>>)
                 \o go(k + 1)
    IN  go(1)

\* The ranges of the scopes explode hands to the scoper.
explode_handed(ss) ==
    {ss[k].range : k \in {j \in 1..Len(ss) : ~is_empty(ss[j]) /\ ss[j].tag = "In"}}

\* The post-condition asserted at the end of explode.
explode_assert(ss, input) == Render(ss) = input

ends_with(s, c) == Len(s) > 0 /\ s[Len(s)] = c
starts_with(s, c) == Len(s) > 0 /\ s[1] = c

split_crlf_detected(ss) ==
    \E i \in 1..(Len(ss) - 1) :
        /\ ss[i].tag = "In"
        /\ ss[i + 1].tag = "Out"
        /\ ends_with(ss[i].content, CR)
        /\ starts_with(ss[i + 1].content, LF)

apply_dos_line_endings_fix_never(ss) == ss

apply_dos_line_endings_fix(ss) ==
    IF split_crlf_detected(ss) THEN explode(ss, DosFix) ELSE ss

(***************************************************************************)
(* SymbolsStage::substitute                                                *)
(***************************************************************************)
Symbol(seq) ==
    CASE seq = <<"-", "-">> -> "EnDash"
      [] seq = <<"-", "-", "-">> -> "EmDash"
      [] seq = <<"-", ">">> -> "ShortRightArrow"
      [] seq = <<"<", "-">> -> "ShortLeftArrow"
      [] seq = <<"-", "-", ">">> -> "LongRightArrow"
      [] seq = <<"<", "-", "-">> -> "LongLeftArrow"
      [] seq = <<"<", "-", ">">> -> "LeftRightArrow"
      [] seq = <<"=", ">">> -> "RightDoubleArrow"
      [] seq = <<"!", "=">> -> "NotEqual"
      [] seq = <<"<", "=">> -> "LessThanOrEqual"
      [] seq = <<">", "=">> -> "GreaterThanOrEqual"

Https == <<"h", "t", "t", "p", "s", ":", "/", "/">>

Arm(do, to, sym) == [do |-> do, to |-> to, sym |-> sym]

Goto(to) == Arm("goto", to, "")
ReplaceGoto(sym, to) == Arm("replace", to, sym)
Replace(sym) == Arm("replace", "end", sym)
Undo == Arm("undo", "end", "")
Pass == Arm("pass", "end", "")

\* The arm of the nested match taken for character c at a position in the
\* code; the position is named by the characters matched so far.
match_arm_not_greedy(at, c) ==
    CASE at = "" ->
            IF c \in {"-", "<", ">", "!", "=", "h"} THEN Goto(c) ELSE Pass
      [] at = "-" ->
            CASE c = "-" -> Replace("EnDash")
              [] c = ">" -> Replace("ShortRightArrow")
              [] OTHER -> Undo
      [] at = "--" ->
            CASE c = "-" -> Replace("EmDash")
              [] c = ">" -> Replace("LongRightArrow")
              [] OTHER -> Undo
      [] at = "<" ->
            CASE c = "-" -> Replace("ShortLeftArrow")
              [] c = "=" -> Replace("LessThanOrEqual")
              [] OTHER -> Undo
      [] at = "<-" ->
            CASE c = "-" -> Replace("LongLeftArrow")
              [] c = ">" -> Replace("LeftRightArrow")
              [] OTHER -> Undo
      [] at = ">" -> IF c = "=" THEN Replace("GreaterThanOrEqual") ELSE Undo
      [] at = "!" -> IF c = "=" THEN Replace("NotEqual") ELSE Undo
      [] at = "=" -> IF c = ">" THEN Replace("RightDoubleArrow") ELSE Undo
      [] at = "h" -> IF c = "t" THEN Goto("ht") ELSE Undo
      [] at = "ht" -> IF c = "t" THEN Goto("htt") ELSE Undo
      [] at = "htt" -> IF c = "p" THEN Goto("http") ELSE Undo
      [] at = "http" -> IF c = "s" THEN Goto("https") ELSE Undo
      [] at = "https" -> IF c = ":" THEN Goto("https:") ELSE Undo
      [] at = "https:" -> IF c = "/" THEN Goto("https:/") ELSE Undo
      [] at = "https:/" -> IF c = "/" THEN Goto("https://") ELSE Undo
      [] at = "https://" -> IF c \in {" ", "\""} THEN Pass ELSE Goto("https://")

match_arm_space_only(at, c) ==
    CASE at = "" ->
            IF c \in {"-", "<", ">", "!", "=", "h"} THEN Goto(c) ELSE Pass
      [] at = "-" ->
            CASE c = "-" -> ReplaceGoto("EnDash", "--")
              [] c = ">" -> Replace("ShortRightArrow")
              [] OTHER -> Undo
      [] at = "--" ->
            CASE c = "-" -> Replace("EmDash")
              [] c = ">" -> Replace("LongRightArrow")
              [] OTHER -> Undo
      [] at = "<" ->
            CASE c = "-" -> ReplaceGoto("ShortLeftArrow", "<-")
              [] c = "=" -> Replace("LessThanOrEqual")
              [] OTHER -> Undo
      [] at = "<-" ->
            CASE c = "-" -> Replace("LongLeftArrow")
              [] c = ">" -> Replace("LeftRightArrow")
              [] OTHER -> Undo
      [] at = ">" -> IF c = "=" THEN Replace("GreaterThanOrEqual") ELSE Undo
      [] at = "!" -> IF c = "=" THEN Replace("NotEqual") ELSE Undo
      [] at = "=" -> IF c = ">" THEN Replace("RightDoubleArrow") ELSE Undo
      [] at = "h" -> IF c = "t" THEN Goto("ht") ELSE Undo
      [] at = "ht" -> IF c = "t" THEN Goto("htt") ELSE Undo
      [] at = "htt" -> IF c = "p" THEN Goto("http") ELSE Undo
      [] at = "http" -> IF c = "s" THEN Goto("https") ELSE Undo
      [] at = "https" -> IF c = ":" THEN Goto("https:") ELSE Undo
      [] at = "https:" -> IF c = "/" THEN Goto("https:/") ELSE Undo
      [] at = "https:/" -> IF c = "/" THEN Goto("https://") ELSE Undo
      [] at = "https://" -> IF c = " " THEN Pass ELSE Goto("https://")

match_arm_short_pivot(at, c) ==
    CASE at = "" ->
            IF c \in {"-", "<", ">", "!", "=", "h"} THEN Goto(c) ELSE Pass
      [] at = "-" ->
            CASE c = "-" -> ReplaceGoto("EnDash", "--")
              [] c = ">" -> Replace("ShortRightArrow")
              [] OTHER -> Undo
      [] at = "--" ->
            CASE c = "-" -> Replace("EmDash")
              [] c = ">" -> Replace("LongRightArrow")
              [] OTHER -> Undo
      [] at = "<" ->
            CASE c = "-" -> ReplaceGoto("ShortLeftArrow", "<-")
              [] c = "=" -> Replace("LessThanOrEqual")
              [] OTHER -> Undo
      [] at = "<-" ->
            CASE c = "-" -> Replace("LongLeftArrow")
              [] c = ">" -> Replace("LeftRightArrow")
              [] OTHER -> Undo
      [] at = ">" -> IF c = "=" THEN Replace("GreaterThanOrEqual") ELSE Undo
      [] at = "!" -> IF c = "=" THEN Replace("NotEqual") ELSE Undo
      [] at = "=" -> IF c = ">" THEN Replace("RightDoubleArrow") ELSE Undo
      [] at = "h" -> IF c = "t" THEN Goto("ht") ELSE Undo
      [] at = "ht" -> IF c = "t" THEN Goto("htt") ELSE Undo
      [] at = "htt" -> IF c = "p" THEN Goto("http") ELSE Undo
      [] at = "http" -> IF c = "s" THEN Goto("https") ELSE Undo
      [] at = "https" -> IF c = ":" THEN Goto("https:") ELSE Undo
      [] at = "https:" -> IF c = "/" THEN Goto("https://") ELSE Undo
      [] at = "https:/" -> IF c = "/" THEN Goto("https://") ELSE Undo
      [] at = "https://" -> IF c \in {" ", "\""} THEN Pass ELSE Goto("https://")

match_arm(at, c) ==
    CASE at = "" ->
            IF c \in {"-", "<", ">", "!", "=", "h"} THEN Goto(c) ELSE Pass
      [] at = "-" ->
            CASE c = "-" -> ReplaceGoto("EnDash", "--")
              [] c = ">" -> Replace("ShortRightArrow")
              [] OTHER -> Undo
      [] at = "--" ->
            CASE c = "-" -> Replace("EmDash")
              [] c = ">" -> Replace("LongRightArrow")
              [] OTHER -> Undo
      [] at = "<" ->
            CASE c = "-" -> ReplaceGoto("ShortLeftArrow", "<-")
              [] c = "=" -> Replace("LessThanOrEqual")
              [] OTHER -> Undo
      [] at = "<-" ->
            CASE c = "-" -> Replace("LongLeftArrow")
              [] c = ">" -> Replace("LeftRightArrow")
              [] OTHER -> Undo
      [] at = ">" -> IF c = "=" THEN Replace("GreaterThanOrEqual") ELSE Undo
      [] at = "!" -> IF c = "=" THEN Replace("NotEqual") ELSE Undo
      [] at = "=" -> IF c = ">" THEN Replace("RightDoubleArrow") ELSE Undo
      [] at = "h" -> IF c = "t" THEN Goto("ht") ELSE Undo
      [] at = "ht" -> IF c = "t" THEN Goto("htt") ELSE Undo
      [] at = "htt" -> IF c = "p" THEN Goto("http") ELSE Undo
      [] at = "http" -> IF c = "s" THEN Goto("https") ELSE Undo
      [] at = "https" -> IF c = ":" THEN Goto("https:") ELSE Undo
      [] at = "https:" -> IF c = "/" THEN Goto("https:/") ELSE Undo
      [] at = "https:/" -> IF c = "/" THEN Goto("https://") ELSE Undo
      [] at = "https://" -> IF c \in {" ", "\""} THEN Pass ELSE Goto("https://")

Iteration(dq, emit, brk, pb, ok) ==
    [deque |-> dq, emit |-> emit, brk |-> brk, pushed |-> pb, ok |-> ok]

Undone(ok, dq, stack) == [ok |-> ok, deque |-> dq, stack |-> stack]

undo_overfetching_dropping(dq, stack) ==
    IF stack = <<>> THEN Undone(FALSE, dq, stack)
    ELSE Undone(TRUE, dq, SubSeq(stack, 1, Len(stack) - 1))

undo_overfetching_duplicating(dq, stack) ==
    IF stack = <<>> THEN Undone(FALSE, dq, stack)
    ELSE Undone(TRUE, <<stack[Len(stack)]>> \o dq, stack)

undo_overfetching_whole_stack(dq, stack) ==
    IF stack = <<>> THEN Undone(FALSE, dq, stack)
    ELSE Undone(TRUE, stack \o dq, <<>>)

\* deque.push_front(stack.pop().expect(..)): the expect panics on an empty
\* stack.
undo_overfetching(dq, stack) ==
    IF stack = <<>> THEN Undone(FALSE, dq, stack)
    ELSE Undone(TRUE, <<stack[Len(stack)]>> \o dq,
                SubSeq(stack, 1, Len(stack) - 1))

replace_keeping_stack(stack, symbol) == Append(stack, symbol)

\* Replace the entire stack with the given symbol.
replace(stack, symbol) == <<symbol>>

\* One iteration of the outer loop, started with an empty stack.  A fetch
\* from an empty deque flushes the stack and breaks out of the outer loop.
outer_iteration(queue) ==
    LET RECURSIVE go(_, _, _)
        go(at, dq, stack) ==
            IF dq = <<>> THEN Iteration(dq, stack, TRUE, <<>>, TRUE)
            ELSE LET c == Head(dq)
                     fetched == Append(stack, c)
                     arm == match_arm(at, c)
                 IN  CASE arm.do = "goto" -> go(arm.to, Tail(dq), fetched)
                       [] arm.do = "replace" /\ arm.to # "end" ->
                             go(arm.to, Tail(dq), replace(fetched, arm.sym))
                       [] arm.do = "replace" /\ arm.to = "end" ->
                             Iteration(Tail(dq), replace(fetched, arm.sym),
                                       FALSE, <<>>, TRUE)
                       [] arm.do = "undo" ->
                             LET u == undo_overfetching(Tail(dq), fetched)
                             IN  Iteration(u.deque, u.stack, FALSE, <<c>>, u.ok)
                       [] arm.do = "pass" ->
                             Iteration(Tail(dq), fetched, FALSE, <<>>, TRUE)
    IN  go("", queue, <<>>)

\* substitute: the outer loop run until it is left.
substitute(input) ==
    LET RECURSIVE loop(_, _)
        loop(it, o) ==
            IF it.brk \/ ~it.ok THEN o \o it.emit
            ELSE loop(outer_iteration(it.deque), o \o it.emit)
    IN  loop(outer_iteration(input), <<>>)

(***************************************************************************)
(* Reference: left-to-right greedy longest-match tokenizer                 *)
(***************************************************************************)
TableSeqs ==
    {<<"-", "-">>, <<"-", "-", "-">>, <<"-", ">">>, <<"-", "-", ">">>,
     <<"<", "-">>, <<"<", "-", "-">>, <<"<", "-", ">">>, <<"=", ">">>,
     <<"<", "=">>, <<">", "=">>, <<"!", "=">>}

IsPrefix(p, s) == Len(p) <= Len(s) /\ SubSeq(s, 1, Len(p)) = p

Drop(s, n) == SubSeq(s, n + 1, Len(s))

\* Length of the URL starting at the head of s: through the first space or
\* double quote after the prefix, or to the end of s.
UrlLength(s) ==
    LET stops == {i \in (Len(Https) + 1)..Len(s) : s[i] \in {" ", "\""}}
    IN  IF stops = {} THEN Len(s)
        ELSE CHOOSE i \in stops : \A j \in stops : i <= j

RECURSIVE Tokenize(_)
Tokenize(s) ==
    IF s = <<>> THEN <<>>
    ELSE IF IsPrefix(Https, s)
         THEN SubSeq(s, 1, UrlLength(s)) \o Tokenize(Drop(s, UrlLength(s)))
         ELSE LET cands == {t \in TableSeqs : IsPrefix(t, s)}
              IN  IF cands = {} THEN <<Head(s)>> \o Tokenize(Tail(s))
                  ELSE LET longest == CHOOSE t \in cands :
                                          \A u \in cands : Len(u) <= Len(t)
                       IN  <<Symbol(longest)>> \o Tokenize(Drop(s, Len(longest)))

(***************************************************************************)
(* Actions                                                                 *)
(***************************************************************************)
Deletion == [kind |-> "Deletion", group |-> 0]
Upper == [kind |-> "Upper", group |-> 0]
\* A replacement text: a literal part, then a reference to capture group g.
ReplacementWith(lit, g) == [kind |-> "Replacement", group |-> g, lit |-> lit]
Replacement(g) == ReplacementWith(<<>>, g)
Symbols == [kind |-> "Symbols", group |-> 0]
SymbolsInversion == [kind |-> "SymbolsInversion", group |-> 0]

Actions == {Deletion, Upper, ReplacementWith(<<"b">>, 1)}

to_uppercase(c) ==
    CASE c = "a" -> "A"
      [] c = "b" -> "B"
      [] OTHER -> c

Ok(v) == [ok |-> TRUE, val |-> v]
Err == [ok |-> FALSE, val |-> <<>>]

\* Upper::act; the input alphabet has no sharp s.
upper_act(input) == [i \in 1..Len(input) |-> to_uppercase(input[i])]

\* Deletion::act returns the empty string.
deletion_act(input) == <<>>

\* Replacement::act returns the replacement text as it is.
replacement_act(action, input) ==
    action.lit \o <<"$", IF action.group = 0 THEN "0" ELSE "1">>

\* Symbols::act runs the stage of the same name.
symbols_act(input) == substitute(input)

\* SymbolsInversion::act writes every symbol of the table as its sequence.
symbols_inversion_act(input) ==
    LET RECURSIVE inv(_)
        inv(o) ==
            IF o = <<>> THEN <<>>
            ELSE LET seqs == {t \in TableSeqs : Symbol(t) = Head(o)}
                 IN  (IF seqs = {} THEN <<Head(o)>> ELSE CHOOSE t \in seqs : TRUE)
                     \o inv(Tail(o))
    IN  inv(input)

\* The context-free method: infallible.
act(action, input) ==
    CASE action.kind = "Deletion" -> deletion_act(input)
      [] action.kind = "Upper" -> upper_act(input)
      [] action.kind = "Symbols" -> symbols_act(input)
      [] action.kind = "SymbolsInversion" -> symbols_inversion_act(input)
      [] OTHER -> replacement_act(action, input)

\* The context-aware method: by default the context-free one; Replacement
\* substitutes the referenced capture group and fails when it is undefined.
act_with_context(action, input, ctx) ==
    IF action.kind = "Replacement"
    THEN IF action.group + 1 <= Len(ctx.caps)
         THEN Ok(action.lit \o ctx.caps[action.group + 1])
         ELSE Err
    ELSE Ok(act(action, input))

(***************************************************************************)
(* ScopedView                                                              *)
(***************************************************************************)
MapResult(ok, ss, cs) == [ok |-> ok, scopes |-> ss, calls |-> cs]

map_impl_losing_ctx(ss, action, use_context) ==
    LET RECURSIVE go(_, _, _)
        go(k, acc, cs) ==
            IF k > Len(ss) THEN MapResult(TRUE, acc, cs)
            ELSE IF ss[k].tag = "In"
                 THEN IF ss[k].ctx.has /\ use_context
                      THEN LET res == act_with_context(action, ss[k].content, ss[k].ctx)
                           IN  IF res.ok
                               THEN go(k + 1,
                                       Append(acc, In(res.val, ss[k].range, NoCtx)),
                                       Append(cs, "ctx"))
                               ELSE MapResult(FALSE,
                                              acc \o SubSeq(ss, k, Len(ss)),
                                              Append(cs, "ctx"))
                      ELSE go(k + 1,
                              Append(acc, In(act(action, ss[k].content),
                                             ss[k].range, NoCtx)),
                              Append(cs, "plain"))
                 ELSE go(k + 1, Append(acc, ss[k]), cs)
    IN  go(1, <<>>, <<>>)

map_impl_always_ctx(ss, action, use_context) ==
    LET RECURSIVE go(_, _, _)
        go(k, acc, cs) ==
            IF k > Len(ss) THEN MapResult(TRUE, acc, cs)
            ELSE IF ss[k].tag = "In"
                 THEN IF ss[k].ctx.has
                      THEN LET res == act_with_context(action, ss[k].content, ss[k].ctx)
                           IN  IF res.ok
                               THEN go(k + 1,
                                       Append(acc, In(res.val, ss[k].range, ss[k].ctx)),
                                       Append(cs, "ctx"))
                               ELSE MapResult(FALSE,
                                              acc \o SubSeq(ss, k, Len(ss)),
                                              Append(cs, "ctx"))
                      ELSE go(k + 1,
                              Append(acc, In(act(action, ss[k].content),
                                             ss[k].range, ss[k].ctx)),
                              Append(cs, "plain"))
                 ELSE go(k + 1, Append(acc, ss[k]), cs)
    IN  go(1, <<>>, <<>>)

map_impl_rolling_back(ss, action, use_context) ==
    LET RECURSIVE go(_, _, _)
        go(k, acc, cs) ==
            IF k > Len(ss) THEN MapResult(TRUE, acc, cs)
            ELSE IF ss[k].tag = "In"
                 THEN IF ss[k].ctx.has /\ use_context
                      THEN LET res == act_with_context(action, ss[k].content, ss[k].ctx)
                           IN  IF res.ok
                               THEN go(k + 1,
                                       Append(acc, In(res.val, ss[k].range, ss[k].ctx)),
                                       Append(cs, "ctx"))
                               ELSE MapResult(FALSE, ss, Append(cs, "ctx"))
                      ELSE go(k + 1,
                              Append(acc, In(act(action, ss[k].content),
                                             ss[k].range, ss[k].ctx)),
                              Append(cs, "plain"))
                 ELSE go(k + 1, Append(acc, ss[k]), cs)
    IN  go(1, <<>>, <<>>)

\* scopes: the view after the loop (or at the point of the early return);
\* calls: the method called for each In scope visited, in order.
map_impl(ss, action, use_context) ==
    LET RECURSIVE go(_, _, _)
        go(k, acc, cs) ==
            IF k > Len(ss) THEN MapResult(TRUE, acc, cs)
            ELSE IF ss[k].tag = "In"
                 THEN IF ss[k].ctx.has /\ use_context
                      THEN LET res == act_with_context(action, ss[k].content, ss[k].ctx)
                           IN  IF res.ok
                               THEN go(k + 1,
                                       Append(acc, In(res.val, ss[k].range, ss[k].ctx)),
                                       Append(cs, "ctx"))
                               ELSE MapResult(FALSE,
                                              acc \o SubSeq(ss, k, Len(ss)),
                                              Append(cs, "ctx"))
                      ELSE go(k + 1,
                              Append(acc, In(act(action, ss[k].content),
                                             ss[k].range, ss[k].ctx)),
                              Append(cs, "plain"))
                 ELSE go(k + 1, Append(acc, ss[k]), cs)
    IN  go(1, <<>>, <<>>)

squeeze_prev_kept(ss) ==
    LET RECURSIVE go(_, _)
        go(k, prev_was_in) ==
            IF k > Len(ss) THEN <<>>
            ELSE LET keep == ~(prev_was_in /\ ss[k].tag = "In")
                 IN  (IF keep THEN <<ss[k]>> ELSE <<>>)
                     \o go(k + 1, keep /\ ss[k].tag = "In")
    IN  go(1, FALSE)

squeeze(ss) ==
    LET RECURSIVE go(_, _)
        go(k, prev_was_in) ==
            IF k > Len(ss) THEN <<>>
            ELSE LET keep == ~(prev_was_in /\ ss[k].tag = "In")
                 IN  (IF keep THEN <<ss[k]>> ELSE <<>>)
                     \o go(k + 1, ss[k].tag = "In")
    IN  go(1, FALSE)

has_any_in_scope(ss) == \E i \in 1..Len(ss) : ss[i].tag = "In"

\* str::split_inclusive('\n'): the pieces of content, each ended by its \n.
split_inclusive(content) ==
    LET RECURSIVE go(_, _, _)
        go(k, piece, acc) ==
            IF k > Len(content)
            THEN IF piece = <<>> THEN acc ELSE Append(acc, piece)
            ELSE IF content[k] = LF
                 THEN go(k + 1, <<>>, Append(acc, Append(piece, LF)))
                 ELSE go(k + 1, Append(piece, content[k]), acc)
    IN  go(1, <<>>, <<>>)

\* as_lines: the first piece of a scope is pushed on the last line, every
\* further piece starts a line; a piece keeps the range and ctx of its scope.
as_lines(ss) ==
    LET RECURSIVE pieces(_, _, _)
        pieces(sc, ps, ls) ==
            IF ps = <<>> THEN ls
            ELSE LET value == [sc EXCEPT !.content = Head(ps)]
                     first == Len(ps) = Len(split_inclusive(sc.content))
                 IN  pieces(sc, Tail(ps),
                            IF first
                            THEN [ls EXCEPT ![Len(ls)] = Append(@, value)]
                            ELSE Append(ls, <<value>>))
        RECURSIVE go(_, _)
        go(k, ls) ==
            IF k > Len(ss) THEN ls
            ELSE go(k + 1, pieces(ss[k], split_inclusive(ss[k].content), ls))
    IN  go(1, <<<<>>>>)

(***************************************************************************)
(* Language scopers: Language::new and scope_via_query.  For one input and *)
(* one syntax tree, a query is the set of its captures, each with the      *)
(* byte ranges of the nodes it captures.                                   *)
(***************************************************************************)
IGNORE == "_SRGN_IGNORE"

CaptureName(prefix, rest) == [prefix |-> prefix, rest |-> rest]

CaptureNames ==
    {CaptureName("", "a"), CaptureName("", "b"), CaptureName(IGNORE, "x")}

\* The byte ranges of the nodes of a tree over MaxLangLen bytes.
Nodes == {r \in [start : 0..MaxLangLen, end : 0..MaxLangLen] : r.start < r.end}

Capture(name, nodes, enabled) ==
    [name |-> name, nodes |-> nodes, enabled |-> enabled]

Captured == {ns \in SUBSET Nodes : Cardinality(ns) <= MaxCaptured}

Queries ==
    LET Options == [present : BOOLEAN, nodes : Captured]
        Choices == {f \in [CaptureNames -> Options] :
                       \A n \in CaptureNames : ~f[n].present => f[n].nodes = {}}
    IN  {{Capture(n, f[n].nodes, TRUE) : n \in {m \in CaptureNames : f[m].present}} :
            f \in Choices}

capture_names(q) == {c.name : c \in q}

disable_capture(q, name) ==
    {IF c.name = name THEN [c EXCEPT !.enabled = FALSE] ELSE c : c \in q}

is_ignored(name) == name.prefix = IGNORE

None == [some |-> FALSE, query |-> {}]
Some(q) == [some |-> TRUE, query |-> q]

\* Ranges: sorted sequences of ranges.
Covered(rs) == UNION {r.start..(r.end - 1) : r \in rs}

RangesOf(offsets) ==
    LET RECURSIVE go(_, _)
        go(i, acc) ==
            IF i >= MaxLangLen THEN acc
            ELSE IF i \notin offsets THEN go(i + 1, acc)
            ELSE LET e == CHOOSE j \in (i + 1)..MaxLangLen :
                              /\ \A k \in i..(j - 1) : k \in offsets
                              /\ j \notin offsets
                 IN  go(e, Append(acc, GlobalRange(i, e)))
    IN  go(0, <<>>)

SeqSet(rs) == {rs[i] : i \in 1..Len(rs)}

merge(rs) == RangesOf(Covered(rs))

sub(a, b) == RangesOf(Covered(SeqSet(a)) \ Covered(SeqSet(b)))

Language_new_disabling_all(q) ==
    LET has_ignored_captures == \E name \in capture_names(q) : is_ignored(name)
    IN  [positive_query |-> q,
         negative_query |->
            IF has_ignored_captures
            THEN Some({[c EXCEPT !.enabled = FALSE] : c \in q})
            ELSE None]

Language_new(q) ==
    LET has_ignored_captures == \E name \in capture_names(q) : is_ignored(name)
        acknowledged_captures == {name \in capture_names(q) : ~is_ignored(name)}
    IN  [positive_query |-> q,
         negative_query |->
            IF has_ignored_captures
            THEN Some({IF c.name \in acknowledged_captures
                       THEN [c EXCEPT !.enabled = FALSE] ELSE c : c \in q})
            ELSE None]

\* The closure run of scope_via_query: the merged ranges of all nodes
\* captured under an enabled capture.
run(q) == merge(UNION {c.nodes : c \in {d \in q : d.enabled}})

scope_via_query(lang) ==
    LET ranges == run(lang.positive_query)
    IN  IF lang.negative_query.some
        THEN sub(ranges, run(lang.negative_query.query))
        ELSE ranges

\* scope_raw of a language scoper: the ranges, each without context.
language_scope_raw(lang) ==
    LET ranges == scope_via_query(lang)
    IN  [i \in 1..Len(ranges) |-> Raw(ranges[i].start, ranges[i].end, NoCtx)]

LangIdle ==
    /\ langpc = "idle"
    /\ lquery = {}
    /\ language = [positive_query |-> {}, negative_query |-> None]
    /\ lranges = <<>>

(***************************************************************************)
(* apply (main.rs): read, build the view, check, squeeze, map, write      *)
(***************************************************************************)
ApplyChars == {"a", "b", LF}
ApplyInputs == StringsUpTo(ApplyChars, MaxApplyLen)
ApplyScopers == {Literal("a"), Regex("(a)|b")}

ListsUpTo(S, n) == UNION {[1..k -> S] : k \in 0..n}

\* The action switches of the command line that assemble_actions reads.
ActionFlags == [replace : BOOLEAN, delete : BOOLEAN, upper : BOOLEAN]

assemble_actions_upper_first(flags) ==
    (IF flags.upper THEN <<Upper>> ELSE <<>>)
    \o (IF flags.replace THEN <<ReplacementWith(<<"b">>, 1)>> ELSE <<>>)
    \o (IF flags.delete THEN <<Deletion>> ELSE <<>>)

\* The actions pushed, in the order of the ifs: the replacement, when
\* given, first.
assemble_actions(flags) ==
    (IF flags.replace THEN <<ReplacementWith(<<"b">>, 1)>> ELSE <<>>)
    \o (IF flags.delete THEN <<Deletion>> ELSE <<>>)
    \o (IF flags.upper THEN <<Upper>> ELSE <<>>)

ApplyActionLists ==
    {assemble_actions(flags) :
        flags \in {f \in ActionFlags : Len(assemble_actions(f)) <= MaxApplyActions}}

Args ==
    [scopers : ListsUpTo(ApplyScopers, MaxApplyScopers),
     actions : ApplyActionLists,
     fail_none : BOOLEAN, fail_any : BOOLEAN, squeeze : BOOLEAN,
     only_matching : BOOLEAN, line_numbers : BOOLEAN]

NoArgs ==
    [scopers |-> <<>>, actions |-> <<>>, fail_none |-> FALSE,
     fail_any |-> FALSE, squeeze |-> FALSE, only_matching |-> FALSE,
     line_numbers |-> FALSE]

fail_check_any_first(a, v) ==
    IF a.fail_any /\ has_any_in_scope(v) THEN "SomeInScope"
    ELSE IF a.fail_none THEN "NoneInScope"
    ELSE "none"

\* The two checks of apply on the built view, fail_none first.
fail_check(a, v) ==
    IF a.fail_none /\ ~has_any_in_scope(v) THEN "NoneInScope"
    ELSE IF a.fail_any /\ has_any_in_scope(v) THEN "SomeInScope"
    ELSE "none"

Digit(i) ==
    CASE i = 1 -> "1" [] i = 2 -> "2" [] i = 3 -> "3" [] i = 4 -> "4"
      [] OTHER -> "9"

\* The write_all calls of apply in order, each with its bytes; the colour of
\* the line number is left out.
writes(a, v) ==
    IF a.only_matching \/ a.line_numbers \* line_based
    THEN LET ls == as_lines(v)
             RECURSIVE go(_, _)
             go(i, acc) ==
                 IF i > Len(ls) THEN acc
                 ELSE IF ~a.only_matching \/ has_any_in_scope(ls[i])
                      THEN go(i + 1,
                              (IF a.line_numbers
                               THEN Append(acc, <<Digit(i), ":">>) ELSE acc)
                              \o <<Render(ls[i])>>)
                      ELSE go(i + 1, acc)
         IN  go(1, <<>>)
    ELSE <<Render(v)>>

ApplyIdle ==
    /\ apc = "idle"
    /\ args = NoArgs
    /\ source = <<>>
    /\ view = <<>>
    /\ built = <<>>
    /\ destination = <<>>
    /\ lines = <<>>
    /\ result = "none"
    /\ si = 0
    /\ ai = 0

(***************************************************************************)
(* handle_actions_on_many_files (main.rs): the parallel walk               *)
(***************************************************************************)
Threads == 1..MaxThreads
Files == 1..MaxFiles

Options == [search_mode : BOOLEAN, fail_empty_glob : BOOLEAN]

NoError == [some |-> FALSE, file |-> 0, at |-> ""]
NotReturned == [some |-> FALSE, file |-> 0, at |-> "running"]
Error(file, at) == [some |-> TRUE, file |-> file, at |-> at]

\* A thread of the walker: where it is in the closure, the entry it visits,
\* what apply left in the buffer, how many slices of its write_vectored
\* call are out, and the error it is about to store.
Waiting == [pc |-> "wait", file |-> 0, contents |-> "", written |-> 0, error |-> ""]
Visiting(file) == [Waiting EXCEPT !.pc = "apply", !.file = file]

\* What opening the file and apply on it come to.
Outcomes == {"open_failed", "apply_failed", "empty", "contents"}

\* What File::create and write_all come to.
FileOutcomes == {"create_failed", "write_failed", "written"}

\* The slices handed to write_vectored.
Block(searching) ==
    IF searching THEN <<"path", "newline", "contents", "newline">>
    ELSE <<"path", "newline">>

Slice(file, slice) == [file |-> file, slice |-> slice]

\* The threads that wait are interchangeable, and so are the entries not yet
\* visited: the next entry is the first of them, and it goes to the first
\* thread that waits.
next_entry(entries, f) == f \in entries /\ \A g \in entries : f <= g
next_thread(threads, t) ==
    /\ threads[t].pc = "wait"
    /\ \A u \in DOMAIN threads : threads[u].pc = "wait" => t <= u

\* In search mode nothing is written for empty contents.
skips(searching, contents) == searching /\ contents = "empty"

\* *err.lock().unwrap() = Some(e)
store(slot, e) == e

drop_guard_leaking(lock, t) == lock

\* A guard of thread t going out of scope frees its lock.
drop_guard(lock, t) == IF lock = t THEN 0 ELSE lock

WalkIdle ==
    /\ walkpc = "idle"
    /\ options = [search_mode |-> FALSE, fail_empty_glob |-> FALSE]
    /\ workers = <<>>
    /\ todo = {}
    /\ quit = FALSE
    /\ err = NoError
    /\ stored = <<>>
    /\ n_files = 0
    /\ stdout_lock = 0
    /\ disk = <<>>
    /\ returned = NotReturned
    /\ stdout = <<>>
    /\ err_mutex = 0
    /\ n_files_mutex = 0

(***************************************************************************)
(* main (main.rs): the log level, then the choice of the input             *)
(***************************************************************************)
\* u8::MAX, the largest additional_verbosity; usize has at least 16 bits.
U8_MAX == 255
USIZE_MIN_BITS == 16

\* LevelFilter::iter(), in the order of the discriminants.
available == <<"Off", "Error", "Warn", "Info", "Debug", "Trace">>

\* The values of the log level variable of the environment.
LogEnv == {"unset", "off", "error", "warn", "info", "debug", "trace"}

\* env_logger::Builder::from_default_env().build().filter()
default_filter(env) ==
    CASE env = "off" -> "Off"
      [] env = "warn" -> "Warn"
      [] env = "info" -> "Info"
      [] env = "debug" -> "Debug"
      [] env = "trace" -> "Trace"
      [] OTHER -> "Error"

\* `default as usize`
as_usize(level) == (CHOOSE i \in 1..Len(available) : available[i] = level) - 1

level_filter_from_env_and_verbosity_in_u8(env, additional_verbosity) ==
    LET level == (as_usize(default_filter(env)) + additional_verbosity)
                     % (U8_MAX + 1)
    IN  IF level < Len(available) THEN available[level + 1]
        ELSE available[Len(available)]

\* available.get(level), or the last level when there is none.
level_filter_from_env_and_verbosity(env, additional_verbosity) ==
    LET level == (as_usize(default_filter(env)) + additional_verbosity)
                     % (2 ^ USIZE_MIN_BITS)
    IN  IF level < Len(available) THEN available[level + 1]
        ELSE available[Len(available)]

Unset == [some |-> FALSE, val |-> FALSE]
Set(v) == [some |-> TRUE, val |-> v]
unwrap_or(option, default) == IF option.some THEN option.val ELSE default

Stdin == [kind |-> "Stdin", validator |-> "none"]
WalkOn(validator) == [kind |-> "WalkOn", validator |-> validator]
NoInput == [kind |-> "none", validator |-> "none"]

select_input_files_first(stdin, files, language_scoper) ==
    CASE files.some -> WalkOn("pattern")
      [] stdin -> Stdin
      [] language_scoper.some -> WalkOn("language_scoper")
      [] OTHER -> Stdin

\* The match on (stdin considered readable, files, language_scoper).
select_input(stdin, files, language_scoper) ==
    CASE stdin /\ ~files.some /\ ~language_scoper.some -> Stdin
      [] stdin -> Stdin
      [] ~stdin /\ files.some -> WalkOn("pattern")
      [] ~stdin /\ ~files.some /\ language_scoper.some -> WalkOn("language_scoper")
      [] OTHER -> Stdin

Cli ==
    [additional_verbosity : 0..U8_MAX, shell : BOOLEAN,
     stdin_override_to : {Unset, Set(TRUE), Set(FALSE)},
     files : {Unset, Set(TRUE)}, language_scoper : {Unset, Set(TRUE)},
     actions_is_empty : BOOLEAN]

NoCli ==
    [additional_verbosity |-> 0, shell |-> FALSE, stdin_override_to |-> Unset,
     files |-> Unset, language_scoper |-> Unset, actions_is_empty |-> FALSE]

MainIdle ==
    /\ mpc = "idle"
    /\ cli = NoCli
    /\ log_env = "unset"
    /\ is_readable_stdin = FALSE
    /\ level_filter = "none"
    /\ search_mode = FALSE
    /\ inp = NoInput

(***************************************************************************)
(* Specification of the view pipeline                                      *)
(***************************************************************************)
NoAction == [kind |-> "none", group |-> 0]

Op(name) == [op |-> name, action |-> NoAction, use_context |-> FALSE]

NoOp == Op("none")

SymIdle ==
    /\ sympc = "idle"
    /\ deque = <<>>
    /\ out = <<>>
    /\ symin = <<>>
    /\ iters = 0
    /\ pushed = <<>>

Init ==
    /\ viewee \in Inputs
    /\ scopes = new(viewee)
    /\ phase = "builder"
    /\ nexp = 0
    /\ panicked = FALSE
    /\ handed = {}
    /\ squeezed = FALSE
    /\ nmaps = 0
    /\ lastop = NoOp
    /\ calls = <<>>
    /\ mapres = "none"
    /\ SymIdle
    /\ LangIdle
    /\ ApplyIdle
    /\ WalkIdle
    /\ MainIdle

Explode(scoper) ==
    /\ phase = "builder"
    /\ ~panicked
    /\ nexp < MaxExplodes
    /\ scopes' = explode(scopes, scoper)
    /\ handed' = explode_handed(scopes)
    /\ panicked' = ~explode_assert(scopes', viewee)
    /\ nexp' = nexp + 1
    /\ lastop' = Op("explode")
    /\ UNCHANGED <<viewee, phase, squeezed, nmaps, calls, mapres>>
    /\ UNCHANGED offview

Build ==
    /\ phase = "builder"
    /\ ~panicked
    /\ scopes' = apply_dos_line_endings_fix(scopes)
    /\ handed' = IF split_crlf_detected(scopes) THEN explode_handed(scopes) ELSE {}
    /\ panicked' = ~explode_assert(scopes', viewee)
    /\ phase' = "view"
    /\ lastop' = Op("build")
    /\ UNCHANGED <<viewee, nexp, squeezed, nmaps, calls, mapres>>
    /\ UNCHANGED offview

Squeeze ==
    /\ phase = "view"
    /\ ~panicked
    /\ scopes' = squeeze(scopes)
    /\ squeezed' = TRUE
    /\ lastop' = Op("squeeze")
    /\ UNCHANGED <<viewee, phase, nexp, panicked, handed, nmaps, calls, mapres>>
    /\ UNCHANGED offview

\* map_without_context: map_impl(action, false).expect(..)
MapWithoutContext(action) ==
    /\ phase = "view"
    /\ ~panicked
    /\ nmaps < MaxMaps
    /\ LET res == map_impl(scopes, action, FALSE)
       IN  /\ scopes' = res.scopes
           /\ calls' = res.calls
           /\ mapres' = IF res.ok THEN "ok" ELSE "err"
           /\ panicked' = ~res.ok
    /\ nmaps' = nmaps + 1
    /\ lastop' = [op |-> "map", action |-> action, use_context |-> FALSE]
    /\ UNCHANGED <<viewee, phase, nexp, handed, squeezed>>
    /\ UNCHANGED offview

\* map_with_context: map_impl(action, true)?
MapWithContext(action) ==
    /\ phase = "view"
    /\ ~panicked
    /\ nmaps < MaxMaps
    /\ LET res == map_impl(scopes, action, TRUE)
       IN  /\ scopes' = res.scopes
           /\ calls' = res.calls
           /\ mapres' = IF res.ok THEN "ok" ELSE "err"
    /\ nmaps' = nmaps + 1
    /\ lastop' = [op |-> "map", action |-> action, use_context |-> TRUE]
    /\ UNCHANGED <<viewee, phase, nexp, panicked, handed, squeezed>>
    /\ UNCHANGED offview

Next ==
    \/ \E scoper \in Scopers : Explode(scoper)
    \/ Build
    \/ Squeeze
    \/ \E action \in Actions : MapWithoutContext(action)
    \/ \E action \in Actions : MapWithContext(action)

Spec == Init /\ [][Next]_vars

(***************************************************************************)
(* Specification of the Symbols stage: substitute on one input             *)
(***************************************************************************)
SymChars == {"-", "<", ">", "=", "!", "x"}
TailChars == {"-", ">", " ", "\"", "h"}
Leads == {<<>>, <<"-">>, <<"h">>, <<"\"">>}

UrlInputs(n) ==
    {lead \o SubSeq(Https, 1, k) \o tail :
        lead \in Leads, k \in 1..Len(Https), tail \in StringsUpTo(TailChars, n)}

SymInputs(n, tail) == StringsUpTo(SymChars, n) \cup UrlInputs(tail)

ViewIdle ==
    /\ viewee = <<>>
    /\ scopes = <<>>
    /\ phase = "idle"
    /\ nexp = 0
    /\ panicked = FALSE
    /\ handed = {}
    /\ squeezed = FALSE
    /\ nmaps = 0
    /\ lastop = NoOp
    /\ calls = <<>>
    /\ mapres = "none"

InitSymbols ==
    /\ ViewIdle
    /\ LangIdle
    /\ ApplyIdle
    /\ WalkIdle
    /\ MainIdle
    /\ symin \in SymInputs(MaxSymLen, MaxTail)
    /\ sympc = "scan"
    /\ deque = symin
    /\ out = <<>>
    /\ iters = 0
    /\ pushed = <<>>

\* One pass through the body of the outer loop of substitute.
SymIterate ==
    /\ sympc = "scan"
    /\ LET it == outer_iteration(deque)
       IN  /\ deque' = it.deque
           /\ out' = out \o it.emit
           /\ pushed' = it.pushed
           /\ sympc' = IF ~it.ok THEN "panic"
                       ELSE IF it.brk THEN "done" ELSE "scan"
    /\ iters' = iters + 1
    /\ UNCHANGED symin
    /\ UNCHANGED offsym

NextSymbols == SymIterate

SpecSymbols == InitSymbols /\ [][NextSymbols]_vars

(***************************************************************************)
(* Specification of a language scoper: construction, then scoping         *)
(***************************************************************************)
InitLang ==
    /\ ViewIdle
    /\ SymIdle
    /\ ApplyIdle
    /\ WalkIdle
    /\ MainIdle
    /\ langpc = "new"
    /\ lquery \in Queries
    /\ language = [positive_query |-> {}, negative_query |-> None]
    /\ lranges = <<>>

LanguageNew ==
    /\ langpc = "new"
    /\ language' = Language_new(lquery)
    /\ langpc' = "built"
    /\ UNCHANGED <<lquery, lranges>>
    /\ UNCHANGED offlang

ScopeRaw ==
    /\ langpc = "built"
    /\ lranges' = language_scope_raw(language)
    /\ langpc' = "scoped"
    /\ UNCHANGED <<lquery, language>>
    /\ UNCHANGED offlang

NextLang == LanguageNew \/ ScopeRaw

SpecLang == InitLang /\ [][NextLang]_vars

(***************************************************************************)
(* Specification of apply on one source                                    *)
(***************************************************************************)
InitApply ==
    /\ ViewIdle
    /\ SymIdle
    /\ LangIdle
    /\ WalkIdle
    /\ MainIdle
    /\ apc = "read"
    /\ args \in Args
    /\ source \in ApplyInputs
    /\ view = <<>>
    /\ built = <<>>
    /\ destination = <<>>
    /\ lines = <<>>
    /\ result = "none"
    /\ si = 0
    /\ ai = 0

\* read_to_string, which can fail, then ScopedViewBuilder::new.
ApplyRead ==
    /\ apc = "read"
    /\ \/ /\ view' = new(source)
          /\ apc' = "explode"
          /\ UNCHANGED result
       \/ /\ result' = "ReadFailed"
          /\ apc' = "done"
          /\ UNCHANGED view
    /\ UNCHANGED <<args, source, built, destination, lines, si, ai>>
    /\ UNCHANGED offapply

ApplyExplode ==
    /\ apc = "explode"
    /\ si < Len(args.scopers)
    /\ view' = explode(view, args.scopers[si + 1])
    /\ si' = si + 1
    /\ IF explode_assert(view', source)
       THEN UNCHANGED <<apc, result>>
       ELSE apc' = "done" /\ result' = "panic"
    /\ UNCHANGED <<args, source, built, destination, lines, ai>>
    /\ UNCHANGED offapply

ApplyBuild ==
    /\ apc = "explode"
    /\ si = Len(args.scopers)
    /\ view' = apply_dos_line_endings_fix(view)
    /\ built' = view'
    /\ apc' = "check"
    /\ UNCHANGED <<args, source, destination, lines, result, si, ai>>
    /\ UNCHANGED offapply

ApplyCheck ==
    /\ apc = "check"
    /\ IF fail_check(args, view) = "none"
       THEN apc' = "squeeze" /\ UNCHANGED result
       ELSE apc' = "done" /\ result' = fail_check(args, view)
    /\ UNCHANGED <<args, source, view, built, destination, lines, si, ai>>
    /\ UNCHANGED offapply

ApplySqueeze ==
    /\ apc = "squeeze"
    /\ view' = IF args.squeeze THEN squeeze(view) ELSE view
    /\ apc' = "map"
    /\ UNCHANGED <<args, source, built, destination, lines, result, si, ai>>
    /\ UNCHANGED offapply

\* view.map_with_context(action)?
ApplyMap ==
    /\ apc = "map"
    /\ ai < Len(args.actions)
    /\ LET res == map_impl(view, args.actions[ai + 1], TRUE)
       IN  /\ view' = res.scopes
           /\ IF res.ok
              THEN UNCHANGED <<apc, result>>
              ELSE apc' = "done" /\ result' = "ActionError"
    /\ ai' = ai + 1
    /\ UNCHANGED <<args, source, built, destination, lines, si>>
    /\ UNCHANGED offapply

ApplyWrite ==
    /\ apc = "map"
    /\ ai = Len(args.actions)
    /\ destination' = writes(args, view)
    /\ lines' = IF args.only_matching \/ args.line_numbers
                THEN as_lines(view) ELSE <<>>
    /\ result' = "Ok"
    /\ apc' = "done"
    /\ UNCHANGED <<args, source, view, built, si, ai>>
    /\ UNCHANGED offapply

NextApply ==
    \/ ApplyRead
    \/ ApplyExplode
    \/ ApplyBuild
    \/ ApplyCheck
    \/ ApplySqueeze
    \/ ApplyMap
    \/ ApplyWrite

SpecApply == InitApply /\ [][NextApply]_vars

(***************************************************************************)
(* Specification of the walk: the threads of the walker and the driver    *)
(***************************************************************************)
InitWalk ==
    /\ ViewIdle
    /\ SymIdle
    /\ LangIdle
    /\ ApplyIdle
    /\ MainIdle
    /\ walkpc = "walking"
    /\ options \in {o \in Options : ~o.fail_empty_glob}
    /\ workers = [t \in Threads |-> Waiting]
    /\ todo = Files
    /\ quit = FALSE
    /\ err = NoError
    /\ stored = <<>>
    /\ n_files = 0
    /\ stdout_lock = 0
    /\ disk = [f \in Files |-> "original"]
    /\ returned = NotReturned
    /\ stdout = <<>>
    /\ err_mutex = 0
    /\ n_files_mutex = 0

\* The walker hands the next entry to a thread, unless told to quit.
Visit(t, f) ==
    /\ walkpc = "walking"
    /\ ~quit
    /\ next_thread(workers, t)
    /\ next_entry(todo, f)
    /\ todo' = todo \ {f}
    /\ workers' = [workers EXCEPT ![t] = Visiting(f)]
    /\ UNCHANGED <<walkpc, options, quit, err, stored, n_files, stdout_lock,
                   disk, returned, stdout, err_mutex, n_files_mutex>>
    /\ UNCHANGED offwalk

\* An entry that is an error: WalkState::Quit, nothing stored.
VisitError(t, f) ==
    /\ walkpc = "walking"
    /\ ~quit
    /\ next_thread(workers, t)
    /\ next_entry(todo, f)
    /\ todo' = todo \ {f}
    /\ quit' = TRUE
    /\ UNCHANGED <<walkpc, options, workers, err, stored, n_files, stdout_lock,
                   disk, returned, stdout, err_mutex, n_files_mutex>>
    /\ UNCHANGED offwalk

\* File::open and apply into a buffer.
Process(t, outcome) ==
    /\ workers[t].pc = "apply"
    /\ workers' = [workers EXCEPT ![t] =
                      IF outcome \in {"open_failed", "apply_failed"}
                      THEN [@ EXCEPT !.pc = "fail", !.error = outcome]
                      ELSE [@ EXCEPT !.pc = "lock", !.contents = outcome]]
    /\ UNCHANGED <<walkpc, options, todo, quit, err, stored, n_files,
                   stdout_lock, disk, returned, stdout, err_mutex,
                   n_files_mutex>>
    /\ UNCHANGED offwalk

\* stdout().lock(), held to the end of the closure.
LockStdout(t) ==
    /\ workers[t].pc = "lock"
    /\ stdout_lock = 0
    /\ stdout_lock' = t
    /\ workers' = [workers EXCEPT ![t].pc = "write"]
    /\ UNCHANGED <<walkpc, options, todo, quit, err, stored, n_files, disk,
                   returned, stdout, err_mutex, n_files_mutex>>
    /\ UNCHANGED offwalk

\* Search mode, empty contents: nothing to write, WalkState::Continue.
Skip(t) ==
    /\ workers[t].pc = "write"
    /\ skips(options.search_mode, workers[t].contents)
    /\ stdout_lock' = drop_guard(stdout_lock, t)
    /\ workers' = [workers EXCEPT ![t] = Waiting]
    /\ UNCHANGED <<walkpc, options, todo, quit, err, stored, n_files, disk,
                   returned, stdout, err_mutex, n_files_mutex>>
    /\ UNCHANGED offwalk

\* write_vectored at work: the next slice reaches stdout.
WriteSlice(t) ==
    /\ workers[t].pc = "write"
    /\ ~skips(options.search_mode, workers[t].contents)
    /\ workers[t].written < Len(Block(options.search_mode))
    /\ stdout' = Append(stdout,
                        Slice(workers[t].file,
                              Block(options.search_mode)[workers[t].written + 1]))
    /\ workers' = [workers EXCEPT ![t].written = @ + 1]
    /\ UNCHANGED <<walkpc, options, todo, quit, err, stored, n_files,
                   stdout_lock, disk, returned, err_mutex, n_files_mutex>>
    /\ UNCHANGED offwalk

\* write_vectored returns: an error, or Ok(n) for the n bytes it wrote, which
\* the closure does not look at.
WriteReturn(t, ok) ==
    /\ workers[t].pc = "write"
    /\ ~skips(options.search_mode, workers[t].contents)
    /\ workers' = [workers EXCEPT ![t] =
                      IF ~ok THEN [@ EXCEPT !.pc = "fail", !.error = "stdout_failed"]
                      ELSE IF options.search_mode THEN [@ EXCEPT !.pc = "count"]
                      ELSE [@ EXCEPT !.pc = "create"]]
    /\ UNCHANGED <<walkpc, options, todo, quit, err, stored, n_files,
                   stdout_lock, disk, returned, stdout, err_mutex,
                   n_files_mutex>>
    /\ UNCHANGED offwalk

\* File::create, which truncates the file, then write_all of the contents.
CreateFile(t, outcome) ==
    /\ workers[t].pc = "create"
    /\ disk' = IF outcome = "create_failed" THEN disk
               ELSE [disk EXCEPT ![workers[t].file] =
                        IF outcome = "written" THEN "rewritten" ELSE "truncated"]
    /\ workers' = [workers EXCEPT ![t] =
                      IF outcome = "written" THEN [@ EXCEPT !.pc = "count"]
                      ELSE [@ EXCEPT !.pc = "fail", !.error = outcome]]
    /\ UNCHANGED <<walkpc, options, todo, quit, err, stored, n_files,
                   stdout_lock, returned, stdout, err_mutex, n_files_mutex>>
    /\ UNCHANGED offwalk

\* n_files.lock()
LockCount(t) ==
    /\ workers[t].pc = "count"
    /\ n_files_mutex = 0
    /\ n_files_mutex' = t
    /\ workers' = [workers EXCEPT ![t].pc = "counting"]
    /\ UNCHANGED <<walkpc, options, todo, quit, err, stored, n_files,
                   stdout_lock, disk, returned, stdout, err_mutex>>
    /\ UNCHANGED offwalk

\* += 1, the guard is dropped; WalkState::Continue drops the stdout guard.
Count(t) ==
    /\ workers[t].pc = "counting"
    /\ n_files' = n_files + 1
    /\ n_files_mutex' = drop_guard(n_files_mutex, t)
    /\ stdout_lock' = drop_guard(stdout_lock, t)
    /\ workers' = [workers EXCEPT ![t] = Waiting]
    /\ UNCHANGED <<walkpc, options, todo, quit, err, stored, disk, returned,
                   stdout, err_mutex>>
    /\ UNCHANGED offwalk

\* err.lock()
LockErr(t) ==
    /\ workers[t].pc = "fail"
    /\ err_mutex = 0
    /\ err_mutex' = t
    /\ workers' = [workers EXCEPT ![t].pc = "failing"]
    /\ UNCHANGED <<walkpc, options, todo, quit, err, stored, n_files,
                   stdout_lock, disk, returned, stdout, n_files_mutex>>
    /\ UNCHANGED offwalk

\* = Some(e), the guard is dropped; WalkState::Quit drops the stdout guard.
StoreErr(t) ==
    /\ workers[t].pc = "failing"
    /\ err' = store(err, Error(workers[t].file, workers[t].error))
    /\ stored' = Append(stored, Error(workers[t].file, workers[t].error))
    /\ err_mutex' = drop_guard(err_mutex, t)
    /\ stdout_lock' = drop_guard(stdout_lock, t)
    /\ quit' = TRUE
    /\ workers' = [workers EXCEPT ![t] = Waiting]
    /\ UNCHANGED <<walkpc, options, todo, n_files, disk, returned, stdout,
                   n_files_mutex>>
    /\ UNCHANGED offwalk

\* run() is over: err.lock().take(), then args.options.fail_empty_glob, read
\* here for the first time, is checked against n_files.lock().
Return(fail_empty_glob) ==
    /\ walkpc = "walking"
    /\ \A t \in Threads : workers[t].pc = "wait"
    /\ quit \/ todo = {}
    /\ err_mutex = 0
    /\ n_files_mutex = 0
    /\ walkpc' = "returned"
    /\ err' = NoError
    /\ returned' = IF err.some THEN err
                   ELSE IF fail_empty_glob /\ n_files = 0
                        THEN Error(0, "NoFilesFound")
                        ELSE NoError
    /\ options' = [options EXCEPT !.fail_empty_glob = fail_empty_glob]
    /\ UNCHANGED <<workers, todo, quit, stored, n_files, stdout_lock, disk,
                   stdout, err_mutex, n_files_mutex>>
    /\ UNCHANGED offwalk

NextWalk ==
    \/ \E t \in Threads, f \in Files : Visit(t, f)
    \/ \E t \in Threads, f \in Files : VisitError(t, f)
    \/ \E t \in Threads, outcome \in Outcomes : Process(t, outcome)
    \/ \E t \in Threads : LockStdout(t)
    \/ \E t \in Threads : Skip(t)
    \/ \E t \in Threads : WriteSlice(t)
    \/ \E t \in Threads, ok \in BOOLEAN : WriteReturn(t, ok)
    \/ \E t \in Threads, outcome \in FileOutcomes : CreateFile(t, outcome)
    \/ \E t \in Threads : LockCount(t)
    \/ \E t \in Threads : Count(t)
    \/ \E t \in Threads : LockErr(t)
    \/ \E t \in Threads : StoreErr(t)
    \/ \E fail_empty_glob \in BOOLEAN : Return(fail_empty_glob)

SpecWalk == InitWalk /\ [][NextWalk]_vars

\* Every thread that can run is run, and every call it makes returns.
SpecWalkFair == SpecWalk /\ WF_vars(NextWalk)

(***************************************************************************)
(* Specification of main: the log level                                    *)
(***************************************************************************)
InitLevel ==
    /\ ViewIdle
    /\ SymIdle
    /\ LangIdle
    /\ ApplyIdle
    /\ WalkIdle
    /\ mpc = "init"
    /\ cli \in {c \in Cli : c = [NoCli EXCEPT
                                    !.additional_verbosity = c.additional_verbosity]}
    /\ log_env \in LogEnv
    /\ is_readable_stdin = FALSE
    /\ level_filter = "none"
    /\ search_mode = FALSE
    /\ inp = NoInput

\* let level_filter = level_filter_from_env_and_verbosity(..)
MainLevel ==
    /\ mpc = "init"
    /\ level_filter' =
          level_filter_from_env_and_verbosity(log_env, cli.additional_verbosity)
    /\ mpc' = "logging"
    /\ UNCHANGED <<cli, log_env, is_readable_stdin, search_mode, inp>>
    /\ UNCHANGED offmain

NextLevel == MainLevel

SpecLevel == InitLevel /\ [][NextLevel]_vars

(***************************************************************************)
(* Specification of main: from the initialised logger to the handler       *)
(***************************************************************************)
InitInput ==
    /\ ViewIdle
    /\ SymIdle
    /\ LangIdle
    /\ ApplyIdle
    /\ WalkIdle
    /\ mpc = "logging"
    /\ cli \in {c \in Cli : c.additional_verbosity = 0}
    /\ log_env = "unset"
    /\ is_readable_stdin \in BOOLEAN
    /\ level_filter = level_filter_from_env_and_verbosity(log_env, 0)
    /\ search_mode = FALSE
    /\ inp = NoInput

\* if let Some(shell) = args.shell: print the completions and return.
MainCompletions ==
    /\ mpc = "logging"
    /\ cli.shell
    /\ mpc' = "returned"
    /\ UNCHANGED <<cli, log_env, is_readable_stdin, level_filter, search_mode,
                   inp>>
    /\ UNCHANGED offmain

\* The scopers and actions are assembled; search_mode is computed.
MainAssemble ==
    /\ mpc = "logging"
    /\ ~cli.shell
    /\ search_mode' = (cli.actions_is_empty /\ cli.language_scoper.some)
    /\ mpc' = "assembled"
    /\ UNCHANGED <<cli, log_env, is_readable_stdin, level_filter, inp>>
    /\ UNCHANGED offmain

\* let inp = match (..)
MainSelectInput ==
    /\ mpc = "assembled"
    /\ inp' = select_input(unwrap_or(cli.stdin_override_to, is_readable_stdin),
                             cli.files, cli.language_scoper)
    /\ mpc' = "selected"
    /\ UNCHANGED <<cli, log_env, is_readable_stdin, level_filter, search_mode>>
    /\ UNCHANGED offmain

\* match input: handle_actions_on_stdin or handle_actions_on_many_files.
MainHandle ==
    /\ mpc = "selected"
    /\ mpc' = IF inp.kind = "Stdin" THEN "stdin" ELSE "walk"
    /\ UNCHANGED <<cli, log_env, is_readable_stdin, level_filter, search_mode,
                   inp>>
    /\ UNCHANGED offmain

NextInput ==
    \/ MainCompletions
    \/ MainAssemble
    \/ MainSelectInput
    \/ MainHandle

SpecInput == InitInput /\ [][NextInput]_vars

(***************************************************************************)
(* Properties of the view pipeline                                         *)
(***************************************************************************)
Untouched == lastop.op \in {"none", "explode", "build"}

InIdx(ss) == {i \in 1..Len(ss) : ss[i].tag = "In"}
OutIdx(ss) == {i \in 1..Len(ss) : ss[i].tag = "Out"}

Offsets(ss, idx) ==
    UNION {ss[i].range.start .. (ss[i].range.end - 1) : i \in idx}

InOffsets(ss) == Offsets(ss, InIdx(ss))
OutOffsets(ss) == Offsets(ss, OutIdx(ss))

\* The elements of ss at the indices in idx, in order.
AtIndices(ss, idx) ==
    LET RECURSIVE go(_)
        go(k) == IF k > Len(ss) THEN <<>>
                 ELSE (IF k \in idx THEN <<ss[k]>> ELSE <<>>) \o go(k + 1)
    IN  go(1)

HasCRLF(s) == \E i \in 1..(Len(s) - 1) : s[i] = CR /\ s[i + 1] = LF

AdjacentBoth(ss, tag) ==
    \E i \in 1..(Len(ss) - 1) : ss[i].tag = tag /\ ss[i + 1].tag = tag

\* C1: after every explode and after build, the contents of the scopes
\* concatenated in order equal the input, and the assertion at the end of
\* explode has not failed.
C1_Reconstruction ==
    Untouched => (~panicked /\ Render(scopes) = viewee)

C1_Witness ==
    /\ lastop.op = "build"
    /\ nexp >= 2
    /\ Len(scopes) >= 3
    /\ ~panicked

\* C2: explode only narrows. Every range handed to the scoper is the range
\* of a scope that was In; offsets out of scope stay out of scope; the
\* in-scope offsets after the step are a subset of those before it.
C2_ExplodeNarrows ==
    [][phase = "builder" =>
          /\ \A r \in handed' : \E i \in InIdx(scopes) : scopes[i].range = r
          /\ OutOffsets(scopes) \subseteq OutOffsets(scopes')
          /\ InOffsets(scopes') \subseteq InOffsets(scopes)]_vars

C2_Witness ==
    /\ lastop.op = "explode"
    /\ nexp >= 2
    /\ handed # {}
    /\ OutIdx(scopes) # {}
    /\ InIdx(scopes) # {}
    /\ \E i \in OutIdx(scopes) : scopes[i].range \notin handed

NoBoundaryInsideCRLF(ss) ==
    \A i \in 1..(Len(ss) - 1) :
        ~(ends_with(ss[i].content, CR) /\ starts_with(ss[i + 1].content, LF))

\* C3 as stated: after build no scope boundary falls between the \r and
\* the \n of a CRLF pair.
C3_Original ==
    lastop.op = "build" => NoBoundaryInsideCRLF(scopes)

\* C3 amended: after build no In scope ending with \r is immediately
\* followed by an Out scope starting with \n.
C3_NoInOutSplit ==
    lastop.op = "build" => ~split_crlf_detected(scopes)

C3_Witness ==
    /\ lastop.op = "build"
    /\ HasCRLF(viewee)
    /\ handed # {}
    /\ ~NoBoundaryInsideCRLF(scopes)

Contiguous(ss) ==
    \A i \in 1..(Len(ss) - 1) : ss[i].range.end = ss[i + 1].range.start

Ordered(ss) ==
    \A i \in 1..(Len(ss) - 1) : ss[i].range.end <= ss[i + 1].range.start

NonEmptyRanges(ss) ==
    \A i \in 1..Len(ss) : ss[i].range.start < ss[i].range.end

\* C4 as stated: in every view the ranges are contiguous, strictly
\* increasing and non-empty.
C4_Original ==
    Contiguous(scopes) /\ NonEmptyRanges(scopes)

\* C4 amended: for a non-empty input, or after at least one explode, the
\* ranges are strictly increasing and non-empty, and they are contiguous
\* as long as the view has not been squeezed.
C4_Ranges ==
    (viewee # <<>> \/ nexp > 0) =>
        /\ NonEmptyRanges(scopes)
        /\ Ordered(scopes)
        /\ ~squeezed => Contiguous(scopes)

C4_Witness ==
    /\ squeezed
    /\ ~Contiguous(scopes)
    /\ Len(scopes) >= 2

\* C5 as stated: two adjacent scopes are never both Out.
C5_Original ==
    Untouched => ~AdjacentBoth(scopes, "Out")

\* C5 amended: explode does not coalesce. Every Out scope is carried
\* through as a scope of its own, unchanged and in order, so two adjacent
\* scopes can both be Out; two adjacent In scopes are allowed.
C5_OutNotCoalesced ==
    [][phase = "builder" =>
          /\ AtIndices(scopes, OutIdx(scopes))
                = SelectSeq(scopes', LAMBDA s : s \in {scopes[i] : i \in OutIdx(scopes)})
          /\ \A j \in OutIdx(scopes') : scopes'[j].content # <<>>]_vars

C5_Witness ==
    /\ lastop.op = "explode"
    /\ nexp >= 2
    /\ AdjacentBoth(scopes, "Out")
    /\ InIdx(scopes) # {}

\* A step of map_with_context or map_without_context.
MapStep == nmaps' = nmaps + 1

Expected(s, action, use_context) ==
    IF use_context /\ s.ctx.has
    THEN act_with_context(action, s.content, s.ctx).val
    ELSE act(action, s.content)

\* C6: a successful map replaces the content of every In scope by the
\* action's result for it and changes nothing else: number and order of
\* scopes, ranges, ctx and the content of Out scopes stay.
C6_MapFrame ==
    [][(MapStep /\ mapres' = "ok") =>
          /\ Len(scopes') = Len(scopes)
          /\ \A i \in 1..Len(scopes) :
                /\ scopes'[i].tag = scopes[i].tag
                /\ scopes'[i].range = scopes[i].range
                /\ scopes'[i].ctx = scopes[i].ctx
                /\ scopes[i].tag = "Out" => scopes'[i].content = scopes[i].content
                /\ scopes[i].tag = "In" =>
                      scopes'[i].content
                        = Expected(scopes[i], lastop'.action, lastop'.use_context)]_vars

C6_Witness ==
    /\ lastop.op = "map"
    /\ mapres = "ok"
    /\ \E i \in InIdx(scopes) : scopes[i].ctx.has /\ scopes[i].content # <<>>
    /\ OutIdx(scopes) # {}
    /\ Render(scopes) # viewee

\* The In scopes on which the context-aware method fails.
Failing(ss, action, use_context) ==
    {i \in InIdx(ss) : /\ use_context
                       /\ ss[i].ctx.has
                       /\ ~act_with_context(action, ss[i].content, ss[i].ctx).ok}

\* C7: the context-aware method is called for an In scope iff use_context
\* is set and the scope has a context, the context-free one otherwise; a
\* failure of the context-aware method aborts the map and is returned;
\* map_without_context never fails.
C7_MapDispatch ==
    [][MapStep =>
          LET ins == AtIndices(scopes, InIdx(scopes))
              bad == Failing(scopes, lastop'.action, lastop'.use_context)
          IN  /\ Len(calls') <= Len(ins)
              /\ \A j \in 1..Len(calls') :
                    (calls'[j] = "ctx") <=> (lastop'.use_context /\ ins[j].ctx.has)
              /\ (mapres' = "err") <=> (bad # {})
              /\ mapres' = "ok" => Len(calls') = Len(ins)
              /\ mapres' = "err" =>
                    /\ lastop'.use_context
                    /\ Len(calls') = Cardinality({i \in InIdx(scopes) :
                                        \A b \in bad : i <= b})
              /\ ~lastop'.use_context => (mapres' = "ok" /\ ~panicked')]_vars

C7_Witness ==
    /\ lastop.op = "map"
    /\ mapres = "err"
    /\ Len(calls) >= 2
    /\ calls[Len(calls)] = "ctx"
    /\ ~panicked

\* C8: squeeze removes exactly the In scopes whose immediate predecessor
\* is an In scope and keeps everything else unchanged and in order.
C8_Squeeze ==
    [][(phase = "view" /\ lastop'.op = "squeeze") =>
          scopes' = AtIndices(scopes,
                       {i \in 1..Len(scopes) :
                           ~(scopes[i].tag = "In" /\ i > 1 /\ scopes[i - 1].tag = "In")})]_vars

C8_Witness ==
    /\ lastop.op = "squeeze"
    /\ nmaps = 0
    /\ Render(scopes) # viewee
    /\ OutIdx(scopes) # {}

\* C9: after squeeze no two adjacent scopes are both In.
C9_NoAdjacentIn ==
    squeezed => ~AdjacentBoth(scopes, "In")

C9_Witness ==
    /\ squeezed
    /\ lastop.op = "map"
    /\ InIdx(scopes) # {}
    /\ OutIdx(scopes) # {}
    /\ ~Contiguous(scopes)

\* C10: the output of substitute is that of the left-to-right greedy
\* longest-match tokenizer over the eleven-entry table, with the text of a
\* URL copied.
C10_GreedyLongestMatch ==
    sympc = "done" => out = Tokenize(symin)

C10_Witness ==
    /\ sympc = "done"
    /\ symin = <<"-", "-", "-", "-">>
    /\ out = <<"EmDash", "-">>

\* C27: after an explode, the synthetic DosFix one of build included, no
\* scope has empty content or an empty range; for empty input the view then
\* has no scopes, nothing in scope, and renders as the empty string.
ExplodeStep == nexp' = nexp + 1

DosFixStep == phase = "builder" /\ phase' = "view" /\ split_crlf_detected(scopes)

NoEmptyScopes(ss) ==
    \A i \in 1..Len(ss) :
        ss[i].content # <<>> /\ ss[i].range.start < ss[i].range.end

C27_EmptyDropping ==
    [][(ExplodeStep \/ DosFixStep) =>
          /\ NoEmptyScopes(scopes')
          /\ viewee = <<>> =>
                /\ scopes' = <<>>
                /\ ~has_any_in_scope(scopes')
                /\ Render(scopes') = <<>>]_vars

C27_Witness ==
    /\ phase = "builder"
    /\ lastop.op = "explode"
    /\ viewee = <<>>
    /\ scopes = <<>>

\* C28: after explode with a scoper, the ctx of every In scope is what that
\* scoper returns for the match, whatever ctx the exploded scope had: none
\* for a literal and for DosFix, the captures of the match for a regex.
ExpectedCtx(scoper, content) ==
    IF scoper.kind \in {"Literal", "DosFix"} THEN NoCtx
    ELSE Captures(scoper, content)

CtxFrom(ss, scoper) ==
    \A i \in InIdx(ss) : ss[i].ctx = ExpectedCtx(scoper, ss[i].content)

C28_ExplodeDropsCtx ==
    [][/\ \A scoper \in Scopers :
              (ExplodeStep /\ scopes' = explode(scopes, scoper))
                  => CtxFrom(scopes', scoper)
       /\ DosFixStep => CtxFrom(scopes', DosFix)]_vars

\* Reached only by the DosFix explode of build after a regex explode that
\* split the CRLF and attached a ctx to every In scope.
C28_Witness ==
    /\ phase = "view"
    /\ lastop.op = "build"
    /\ viewee = <<"a", CR, LF>>
    /\ scopes = <<In(<<"a">>, GlobalRange(0, 1), NoCtx),
                  Out(<<CR>>, GlobalRange(1, 2)),
                  Out(<<LF>>, GlobalRange(2, 3))>>

\* C29: when the context-aware method fails on an In scope, map_with_context
\* returns the error with every scope before the failing one already mapped
\* and the failing scope and all after it as they were.
FirstFailing(ss, action) ==
    LET failing == {i \in InIdx(ss) :
                       /\ ss[i].ctx.has
                       /\ ~act_with_context(action, ss[i].content, ss[i].ctx).ok}
    IN  IF failing = {} THEN 0
        ELSE CHOOSE k \in failing : \A j \in failing : k <= j

C29_MapNotAtomic ==
    [][(MapStep /\ mapres' = "err" /\ lastop'.use_context) =>
          LET k == FirstFailing(scopes, lastop'.action)
          IN  /\ k > 0
              /\ Len(scopes') = Len(scopes)
              /\ \A i \in 1..(k - 1) :
                    scopes'[i] =
                        IF scopes[i].tag = "In"
                        THEN [scopes[i] EXCEPT
                                 !.content = Expected(scopes[i], lastop'.action, TRUE)]
                        ELSE scopes[i]
              /\ \A i \in k..Len(scopes) : scopes'[i] = scopes[i]]_vars

C29_Witness ==
    /\ lastop.op = "map"
    /\ lastop.use_context
    /\ mapres = "err"
    /\ viewee = <<"a", "b">>
    /\ scopes[1].content = <<"b", "a">>
    /\ scopes[2].content = <<"b">>

(***************************************************************************)
(* Properties of the Symbols stage                                         *)
(***************************************************************************)
SymbolNames == {Symbol(t) : t \in TableSeqs}

SymbolSeq(name) == CHOOSE t \in TableSeqs : Symbol(t) = name

\* The input characters an output stands for.
RECURSIVE Expand(_)
Expand(o) ==
    IF o = <<>> THEN <<>>
    ELSE (IF Head(o) \in SymbolNames THEN SymbolSeq(Head(o)) ELSE <<Head(o)>>)
         \o Expand(Tail(o))

SymStep == sympc = "scan" /\ iters' = iters + 1

\* C11: a character that was fetched and does not extend the match or the
\* partial https:// prefix is put back at the front of the deque, where the
\* next iteration starts; output and deque together still stand for exactly
\* the input, so the character is neither dropped, duplicated nor emitted.
C11_Pushback ==
    [][(SymStep /\ pushed' # <<>>) =>
          /\ Len(pushed') = 1
          /\ deque' # <<>>
          /\ Head(deque') = pushed'[1]
          /\ Expand(out') \o deque' = symin
          /\ sympc' = "scan"]_vars

C11_Witness ==
    /\ sympc = "done"
    /\ symin = <<"-", "-", "!", "=">>
    /\ out = <<"EnDash", "NotEqual">>

\* C12: an iteration that starts on https:// copies the deque through the
\* first space or double quote after the prefix, or through its end when
\* there is none, to the output unchanged, and ends the scan only in the
\* latter case; the characters after the terminator are substituted as
\* usual.
C12_UrlSuppression ==
    /\ [][(SymStep /\ IsPrefix(Https, deque)) =>
             LET n == UrlLength(deque)
                 stops == {i \in (Len(Https) + 1)..Len(deque) :
                              deque[i] \in {" ", "\""}}
             IN  /\ out' = out \o SubSeq(deque, 1, n)
                 /\ deque' = Drop(deque, n)
                 /\ pushed' = <<>>
                 /\ (sympc' = "done") <=> (stops = {})
                 /\ (sympc' = "scan") <=> (stops # {})]_vars
    /\ []((sympc = "done" /\ IsPrefix(Https, symin)) =>
             LET n == UrlLength(symin)
             IN  out = SubSeq(symin, 1, n) \o Tokenize(Drop(symin, n)))

C12_Witness ==
    /\ sympc = "done"
    /\ symin = Https \o <<"-", ">", "\"">>
    /\ out = symin
    /\ iters = 2

\* C13: an iteration that starts on a proper prefix of https:// followed by
\* a character that does not continue it emits the prefix unchanged and puts
\* that character back, so that it is scanned for substitutions.
CommonPrefix(s) ==
    LET ks == {k \in 0..Len(Https) : k <= Len(s) /\ SubSeq(s, 1, k) = SubSeq(Https, 1, k)}
    IN  CHOOSE k \in ks : \A j \in ks : j <= k

C13_OnlyFullPrefix ==
    /\ [][(SymStep /\ CommonPrefix(deque) \in 1..(Len(Https) - 1)) =>
             LET k == CommonPrefix(deque)
             IN  /\ out' = out \o SubSeq(deque, 1, k)
                 /\ deque' = Drop(deque, k)
                 /\ IF Len(deque) > k
                    THEN pushed' = <<deque[k + 1]>> /\ sympc' = "scan"
                    ELSE pushed' = <<>> /\ sympc' = "done"]_vars
    /\ []((sympc = "done" /\ CommonPrefix(symin) \in 1..(Len(Https) - 1)) =>
             LET k == CommonPrefix(symin)
             IN  out = SubSeq(symin, 1, k) \o Tokenize(Drop(symin, k)))

C13_Witness ==
    /\ sympc = "done"
    /\ symin = SubSeq(Https, 1, 7) \o <<"-", ">">>
    /\ out = SubSeq(Https, 1, 7) \o <<"ShortRightArrow">>

\* C14: Symbols mapped over the view of the whole input, then
\* SymbolsInversion mapped over the view of the result, gives the input
\* back.
ViewOf(input) == apply_dos_line_endings_fix(new(input))

Mapped(input, action) == Render(map_impl(ViewOf(input), action, FALSE).scopes)

C14_RoundTrip ==
    sympc = "done" =>
        /\ Mapped(symin, Symbols) = out
        /\ Mapped(Mapped(symin, Symbols), SymbolsInversion) = symin

C14_Witness ==
    /\ sympc = "done"
    /\ symin = <<"<", "-", ">", "-", "-">>
    /\ out = <<"LeftRightArrow", "EnDash">>
    /\ Mapped(out, SymbolsInversion) = symin

\* C15: running substitute on its own output changes nothing.
C15_Idempotent ==
    sympc = "done" =>
        /\ substitute(symin) = out
        /\ substitute(out) = out
        /\ substitute(substitute(out)) = out

C15_Witness ==
    /\ sympc = "done"
    /\ symin = <<"-", "-", "!", "=", ">">>
    /\ out = <<"EnDash", "NotEqual", ">">>
    /\ substitute(out) = out

\* C16 as stated: every iteration of the outer loop takes at least one
\* character net off the deque, and undo_overfetching never panics.
C16_Original ==
    /\ [][SymStep => Len(deque') < Len(deque)]_vars
    /\ [](sympc # "panic")

\* C16: substitute never panics and ends with an output after at most one
\* iteration more than the input has characters: an iteration that starts
\* on a non-empty deque takes at least one character net off it (a pushback
\* returns one character, after at least two were fetched), and the
\* iteration that starts on the empty deque takes nothing off and leaves the
\* loop.
C16_Terminates ==
    /\ [][SymStep =>
             /\ sympc' # "panic"
             /\ deque # <<>> => Len(deque') < Len(deque)
             /\ deque = <<>> => (deque' = <<>> /\ sympc' = "done")
             /\ Len(pushed') <= 1
             /\ pushed' # <<>> => Len(deque) - (Len(deque') - 1) >= 2]_vars
    /\ [](/\ sympc \in {"scan", "done"}
          /\ sympc = "scan" => iters <= Len(symin)
          /\ sympc = "done" => (deque = <<>> /\ iters <= Len(symin) + 1))

C16_Witness ==
    /\ sympc = "done"
    /\ symin = <<"-", "x">>
    /\ out = symin
    /\ iters = 3

(***************************************************************************)
(* Properties of the language scopers                                      *)
(***************************************************************************)
NodesOf(cs) == UNION {c.nodes : c \in cs}

\* C17: the negative query exists exactly when a capture name of the query
\* starts with the sentinel, and has exactly the sentinel captures enabled;
\* the ranges returned cover exactly the bytes under a node captured by the
\* positive query and under no node of a sentinel capture, and are sorted,
\* disjoint, non-empty and without context.
C17_PositiveMinusNegative ==
    LET sentinel == {c \in lquery : is_ignored(c.name)}
        neg == language.negative_query
    IN  /\ langpc \in {"built", "scoped"} =>
              /\ language.positive_query = lquery
              /\ neg.some <=> (sentinel # {})
              /\ neg.some =>
                    /\ capture_names(neg.query) = capture_names(lquery)
                    /\ \A c \in neg.query : c.enabled <=> is_ignored(c.name)
                    /\ NodesOf(neg.query) = NodesOf(lquery)
        /\ langpc = "scoped" =>
              /\ Covered(SeqSet(lranges))
                    = Covered(NodesOf(language.positive_query)) \ Covered(NodesOf(sentinel))
              /\ \A i \in 1..Len(lranges) :
                    /\ lranges[i].start < lranges[i].end
                    /\ lranges[i].ctx = NoCtx
                    /\ i < Len(lranges) => lranges[i].end <= lranges[i + 1].start

C17_Witness ==
    /\ langpc = "scoped"
    /\ language.negative_query.some
    /\ \E c \in lquery : ~is_ignored(c.name) /\ c.nodes # {}
    /\ lranges # <<>>
    /\ Covered(SeqSet(lranges)) # Covered(NodesOf(lquery))

(***************************************************************************)
(* Properties of as_lines                                                  *)
(***************************************************************************)
RenderedLines == [i \in 1..Len(lines) |-> Render(lines[i])]

\* C18: every view returned by as_lines renders to text with at most one
\* \n, which is then its last character, so that the views are the lines of
\* the rendered view in order; every piece has the tag and ctx of a scope of
\* the view.
C18_LinesAtNewlines ==
    (apc = "done" /\ result = "Ok" /\ (args.only_matching \/ args.line_numbers)) =>
        /\ \A i \in 1..Len(lines) :
              \A k \in 1..Len(RenderedLines[i]) :
                  RenderedLines[i][k] = LF => k = Len(RenderedLines[i])
        /\ Render(view) # <<>> => RenderedLines = split_inclusive(Render(view))
        /\ \A i \in 1..Len(lines) : \A k \in 1..Len(lines[i]) :
              \E j \in 1..Len(view) :
                  /\ lines[i][k].tag = view[j].tag
                  /\ lines[i][k].ctx = view[j].ctx
                  /\ lines[i][k].range = view[j].range

(***************************************************************************)
(* Properties of apply                                                     *)
(***************************************************************************)
\* C19: apply returns the 'some input was in scope' error exactly when
\* fail_any is set and the built view has an In scope, and the 'nothing in
\* scope' error exactly when fail_none is set and it has none; the view is
\* then as built, no action was applied and nothing was written.
C19_FailAnyFailNone ==
    (apc = "done" /\ result \notin {"ReadFailed", "panic"}) =>
        /\ (result = "SomeInScope") <=> (args.fail_any /\ has_any_in_scope(built))
        /\ (result = "NoneInScope") <=> (args.fail_none /\ ~has_any_in_scope(built))
        /\ result \in {"SomeInScope", "NoneInScope"} =>
              /\ destination = <<>>
              /\ view = built
              /\ ai = 0

C19_Witness ==
    /\ apc = "done"
    /\ result = "SomeInScope"
    /\ args.fail_any /\ args.fail_none /\ args.squeeze
    /\ args.actions # <<>>
    /\ squeeze(view) # view

\* C26: apply maps the actions one after another in the order
\* assemble_actions pushed them, the replacement first; each action has been
\* mapped over the whole view before the next one starts, and within one
\* action the In scopes are mapped in the order of the view, so that a
\* failing action leaves the scopes before the failing one mapped by it and
\* the others not.
Squeezed == IF args.squeeze THEN squeeze(built) ELSE built

\* The content of scope s after the first n actions.
AppliedTo(s, n) ==
    LET RECURSIVE go(_, _)
        go(j, content) ==
            IF j > n THEN content
            ELSE go(j + 1,
                    Expected([s EXCEPT !.content = content], args.actions[j], TRUE))
    IN  go(1, s.content)

AfterActions(ss, upto) ==
    [i \in 1..Len(ss) |->
        IF ss[i].tag = "In"
        THEN [ss[i] EXCEPT !.content = AppliedTo(ss[i], upto[i])]
        ELSE ss[i]]

FailsAt(s, j) ==
    /\ s.tag = "In"
    /\ s.ctx.has
    /\ ~act_with_context(args.actions[j], AppliedTo(s, j - 1), s.ctx).ok

C26_ActionOrder ==
    /\ \A i \in 1..Len(args.actions) :
          args.actions[i].kind = "Replacement" => i = 1
    /\ (apc = "map" \/ (apc = "done" /\ result = "Ok")) =>
          view = AfterActions(Squeezed, [i \in 1..Len(Squeezed) |-> ai])
    /\ (apc = "done" /\ result = "ActionError") =>
          \E k \in 1..Len(Squeezed) :
              /\ FailsAt(Squeezed[k], ai)
              /\ \A i \in 1..(k - 1) : ~FailsAt(Squeezed[i], ai)
              /\ view = AfterActions(Squeezed,
                                     [i \in 1..Len(Squeezed) |->
                                         IF i < k THEN ai ELSE ai - 1])

C26_Witness ==
    /\ apc = "done"
    /\ result = "Ok"
    /\ ai = 2
    /\ args.actions = <<ReplacementWith(<<"b">>, 1), Upper>>
    /\ source = <<"a">>
    /\ view = <<In(<<"B", "$", "1">>, GlobalRange(0, 1), NoCtx)>>

(***************************************************************************)
(* Properties of the walk                                                  *)
(***************************************************************************)
\* C20: the error the driver returns is the first one a thread stored; an
\* error stored later does not replace it.
C20_FirstErrorReturned ==
    /\ (walkpc = "returned" /\ stored # <<>>) => returned = stored[1]
    /\ (walkpc = "walking" /\ stored # <<>>) => err = stored[1]

\* C21: a file is either rewritten in full or left as it was, and a file
\* whose processing ended in an error has its original content on disk.
C21_RewrittenOrUntouched ==
    /\ \A f \in DOMAIN disk : disk[f] \in {"original", "rewritten"}
    /\ \A i \in 1..Len(stored) : disk[stored[i].file] = "original"

\* An error came up during the walk: every one of them tells the walker to
\* quit, and nothing else does.
Failed == quit

\* C22: the driver returns an error exactly when an error came up during
\* the walk (an entry of the directory walk, open, read, apply, the write to
\* stdout or to the file), or when fail_empty_glob is set and no file was
\* processed; otherwise it returns Ok.
C22_ErrorReturned ==
    walkpc = "returned" =>
        (returned.some <=> (Failed \/ (options.fail_empty_glob /\ n_files = 0)))

\* What reached stdout for one file.
OutputOf(file) == SelectSeq(stdout, LAMBDA e : e.file = file)

EntireBlock(file) ==
    [i \in 1..Len(Block(options.search_mode)) |->
        Slice(file, Block(options.search_mode)[i])]

\* The output of two files is not mixed on stdout.
NeverInterleaved ==
    \A i, j, k \in 1..Len(stdout) :
        (i < j /\ j < k /\ stdout[i].file = stdout[k].file)
            => stdout[j].file = stdout[i].file

StdoutFailed(file) ==
    \/ \E i \in 1..Len(stored) : stored[i] = Error(file, "stdout_failed")
    \/ \E t \in Threads : /\ workers[t].file = file
                           /\ workers[t].error = "stdout_failed"

\* C23: what one file puts on stdout is atomic: its block (path, newline,
\* contents, newline in search mode) is never interleaved with the block of
\* another file, and it is there in full once the write has returned
\* without an error.
C23_StdoutAtomic ==
    /\ NeverInterleaved
    /\ \A f \in DOMAIN disk :
          \/ OutputOf(f) = <<>>
          \/ OutputOf(f) = EntireBlock(f)
          \/ \E t \in Threads : workers[t].file = f /\ workers[t].pc = "write"
          \/ StdoutFailed(f)

\* A thread holding one of the two mutexes is in the one statement that
\* needs it, and no thread waits for stdout with a mutex in hand.
LockOrder ==
    \A t \in Threads :
        /\ err_mutex = t => workers[t].pc = "failing"
        /\ n_files_mutex = t => workers[t].pc = "counting"
        /\ workers[t].pc = "lock" => (err_mutex # t /\ n_files_mutex # t)

\* C30: the stdout lock, the mutex of the error slot and the mutex of the
\* file counter never deadlock: a thread holds a mutex only for the one
\* statement that uses it, possibly with the stdout lock in hand, and never
\* waits for the stdout lock while holding a mutex; so every thread that
\* starts on a file finishes its callback, and the driver gets to read the
\* error slot and the counter.
C30_NoDeadlock ==
    /\ []LockOrder
    /\ <>(walkpc = "returned" /\ \A t \in Threads : workers[t].pc = "wait")

\* A thread waits for stdout while the thread holding it also holds the
\* mutex of the error slot; in the end the driver has returned.
C30_Witness ==
    \E t, u \in Threads :
        /\ workers[t].pc = "lock"
        /\ stdout_lock = u
        /\ err_mutex = u
        /\ workers[u].pc = "failing"

(***************************************************************************)
(* Properties of main                                                      *)
(***************************************************************************)
Min(a, b) == IF a <= b THEN a ELSE b

\* The position of the default level of the environment: Error when unset.
EnvPosition(env) ==
    CASE env = "off" -> 0
      [] env = "unset" -> 1
      [] env = "error" -> 1
      [] env = "warn" -> 2
      [] env = "info" -> 3
      [] env = "debug" -> 4
      [] env = "trace" -> 5

\* C25: the level is the one at position min(d + v, 5) of Off, Error, Warn,
\* Info, Debug, Trace, for d the position of the environment's level (Error
\* when unset) and v the additional verbosity; the sum fits the integer
\* type for every v of 0..255 and the result is never beyond Trace.
C25_LevelClamped ==
    mpc = "logging" =>
        LET d == EnvPosition(log_env)
            v == cli.additional_verbosity
        IN  /\ d + v < 2 ^ USIZE_MIN_BITS
            /\ level_filter
                  = <<"Off", "Error", "Warn", "Info", "Debug", "Trace">>[Min(d + v, 5) + 1]

C25_Witness ==
    /\ mpc = "logging"
    /\ log_env = "trace"
    /\ cli.additional_verbosity = U8_MAX
    /\ level_filter = "Trace"

\* C24: stdin is the input when stdin is considered readable (the override
\* when given, the detection otherwise), whatever files and language scoper
\* say; otherwise the files pattern is the validator of the walk when
\* given, the language scoper when only that is given, and with neither
\* stdin is the input.
ConsideredReadable == unwrap_or(cli.stdin_override_to, is_readable_stdin)

====
